---- MODULE Spec2Model ----
(***************************************************************************)
(* Backend worker of the model server (ts/model_service_worker.py) and the *)
(* handler resolution it calls (ts/model_loader.py).                       *)
(*                                                                         *)
(* The worker is one synchronous process.  Its blocking points (the        *)
(* registration call, the backoff sleep, accept, the read of one command)  *)
(* are the action boundaries; everything the code does between two of      *)
(* them is one action.  An exception that reaches the main block puts the  *)
(* process in "dying"; the main block's except/finally clauses are the     *)
(* last action.                                                            *)
(*                                                                         *)
(* Python values are modelled by what the code does with them: a string    *)
(* argument is "str", an integer is "int", None is "None" (the url of the  *)
(* registration call is built with +, which raises TypeError unless every  *)
(* operand is a string).                                                   *)
(***************************************************************************)
EXTENDS Integers, Sequences, FiniteSets, Bags, TLC

\* ------------------------------------------------------------------ bounds
\* Commands read on one connection.
MaxCmds == 3
\* Connection errors of the registration call that the model follows.
MaxFailures == 6
\* The archive bytes of the codec runs: up to MaxFill filler bytes followed by
\* up to MaxTail bytes of TailBytes.
MaxFill == 32
MaxTail == 3
\* The model names of the export-path runs have up to MaxNameTokens tokens.
MaxNameTokens == 2
\* copy_artifacts is given up to MaxArtifacts artifact arguments, and a comma
\* list has up to MaxListed paths.
MaxArtifacts == 2
MaxListed == 2

\* ------------------------------------------------------- program constants
MAX_FAILURE_THRESHOLD == 5
BACKOFF_SECONDS == 30
DEBUG_mut == TRUE
DEBUG == FALSE

None == "None"
ModelNames == {"m1", "m2"}
Payloads == {"b1", "b2"}

VARIABLES
    args,        \* the parsed command line: sock_type, sock_name, host, port, frontend
    self_port,   \* self.port after construction
    pc,          \* where the process is
    exc,         \* the exception that is propagating to, or was handled by, the main block
    sockFile,    \* what is at the path of the unix endpoint: "absent", "file", "stuck"
    response,    \* run_server's response: the status class of the last registration call
    calls,       \* the registration calls of the current pass of the inner loop
    failures,    \* connection errors of the registration call so far
    waited,      \* seconds slept in the backoff so far
    backlog,     \* a client is waiting in the listen queue
    accepts,     \* connections accepted so far
    live,        \* calls of handle_connection that have not exited
    service,     \* handle_connection's service
    loads,       \* Load commands dispatched so far (the identity of the next Service)
    cmds,        \* the commands read on the connection, in order
    sent,        \* what was written to the connection, in order
    tool         \* the state of a run of the loader, the codec or the archiver
                 \* taken on its own (not used by the worker process)

vars == <<args, self_port, pc, exc, sockFile, response, calls, failures, waited,
          backlog, accepts, live, service, loads, cmds, sent, tool>>

regVars == <<response, calls, failures, waited>>
connVars == <<service, loads, cmds, sent>>

\* --------------------------------------------------------------- start-up
\* The command line.  A path that os.remove cannot remove (a directory, a
\* file in a directory without write permission) is "stuck".
ArgSets ==
    [sock_type : {"unix"},
     sock_name : {None, "str"},
     host      : {None, "str"},
     port      : {None, "str", "int"},
     frontend  : {None, "str"}]
    \cup
    [sock_type : {"tcp", None},
     sock_name : {None},
     host      : {None, "str"},
     port      : {None, "str", "int"},
     frontend  : {None, "str"}]

Init ==
    /\ tool = [kind |-> "worker"]
    /\ args \in ArgSets
    /\ self_port = args.port
    /\ pc = "start"
    /\ exc = None
    /\ sockFile \in (IF args.sock_type = "unix" /\ args.sock_name # None
                     THEN {"absent", "file", "stuck"} ELSE {"absent"})
    /\ response = None
    /\ calls = << >>
    /\ failures = 0
    /\ waited = 0
    /\ backlog = FALSE
    /\ accepts = 0
    /\ live = 0
    /\ service = [id |-> 0, model_name |-> None, entry_point |-> << >>,
                  initialized |-> << >>]
    /\ loads = 0
    /\ cmds = << >>
    /\ sent = << >>

\* An exception leaves the current frame and reaches the main block.
Raise(e) ==
    /\ pc' = "dying"
    /\ exc' = e

\* TorchModelServiceWorker.__init__: what it raises, or None.
init_raises(a, file, metricsOk) ==
    IF a.sock_type = "unix"
    THEN IF a.sock_name = None THEN "ValueError"
         ELSE IF file = "stuck" THEN "RuntimeError: socket already in use"
         ELSE IF ~metricsOk THEN "RuntimeError: metrics" ELSE None
    ELSE IF a.sock_type = "tcp"
    THEN IF a.port = None THEN "ValueError"
         ELSE IF ~metricsOk THEN "RuntimeError: metrics" ELSE None
    ELSE "ValueError"

\* os.remove(s_name) in __init__: a removable file goes, anything else stays.
init_remove(a, file) ==
    IF a.sock_type = "unix" /\ a.sock_name # None /\ file = "file"
    THEN "absent" ELSE file

\* The main block up to the construction of the worker.
TorchModelServiceWorker_init ==
    /\ pc = "start"
    /\ \E metricsOk \in BOOLEAN :
          LET e == init_raises(args, sockFile, metricsOk) IN
          /\ sockFile' = init_remove(args, sockFile)
          /\ self_port' = IF args.sock_type = "unix" /\ args.sock_name # None
                          THEN "int" ELSE args.port
          /\ IF e = None THEN pc' = "constructed" /\ exc' = exc ELSE Raise(e)
    /\ UNCHANGED <<tool, args, backlog, accepts, live>>
    /\ UNCHANGED regVars
    /\ UNCHANGED connVars

\* run_server up to listen: the accept timeout is set, the socket is bound
\* (on the unix transport bind creates the endpoint file) and listens.
run_server_bind ==
    /\ pc = "constructed"
    /\ \E bound \in BOOLEAN :
          IF bound
          THEN /\ sockFile' = IF args.sock_type = "unix" THEN "file" ELSE sockFile
               /\ pc' = "register"
               /\ exc' = exc
          ELSE /\ sockFile' = sockFile
               /\ Raise("OSError: bind")
    /\ UNCHANGED <<tool, args, self_port, backlog, accepts, live>>
    /\ UNCHANGED regVars
    /\ UNCHANGED connVars

\* ------------------------------------------------------------ registration
\* The url of the registration call is a + of strings: frontend_ip,
\* frontend_port, model_name, self.host and self.port.
url_builds(a, port) == a.frontend = "str" /\ a.host = "str" /\ port = "str"

\* What requests.put does: a response of some status class, or an exception.
PutOutcomes == {"2xx", "non2xx", "ConnectionError", "RequestException"}

is_2xx(status) == status = "2xx"

\* Where the inner loop goes when the call raised ConnectionError.
on_connection_error_mut == "accept"
on_connection_error == "sleep"

\* Where the inner loop goes after the https call returned a response: the
\* break is not conditional on the status.
after_https(status) == "accept"

\* One pass of "while True: try: ..." up to the first call's result.
run_server_put_http ==
    /\ pc = "register"
    /\ IF ~url_builds(args, self_port)
       THEN /\ Raise("TypeError: url")
            /\ UNCHANGED regVars
       ELSE \E o \in PutOutcomes :
            /\ calls' = <<[scheme |-> "http", outcome |-> o]>>
            /\ waited' = waited
            /\ IF o \in {"2xx", "non2xx"}
               THEN /\ response' = o
                    /\ failures' = failures
                    /\ pc' = IF is_2xx(o) THEN "accept" ELSE "https"
                    /\ exc' = exc
               ELSE IF o = "ConnectionError"
               THEN /\ failures < MaxFailures
                    /\ failures' = failures + 1
                    /\ response' = response
                    /\ pc' = on_connection_error
                    /\ exc' = exc
               ELSE /\ Raise(o)
                    /\ UNCHANGED <<response, failures>>
    /\ UNCHANGED <<tool, args, self_port, sockFile, backlog, accepts, live>>
    /\ UNCHANGED connVars

\* The second call of the pass, over https, made when the first returned a
\* status outside 200..299.
run_server_put_https ==
    /\ pc = "https"
    /\ \E o \in PutOutcomes :
            /\ calls' = Append(calls, [scheme |-> "https", outcome |-> o])
            /\ waited' = waited
            /\ IF o \in {"2xx", "non2xx"}
               THEN /\ response' = o
                    /\ failures' = failures
                    /\ pc' = after_https(o)
                    /\ exc' = exc
               ELSE IF o = "ConnectionError"
               THEN /\ failures < MaxFailures
                    /\ failures' = failures + 1
                    /\ response' = response
                    /\ pc' = on_connection_error
                    /\ exc' = exc
               ELSE /\ Raise(o)
                    /\ UNCHANGED <<response, failures>>
    /\ UNCHANGED <<tool, args, self_port, sockFile, backlog, accepts, live>>
    /\ UNCHANGED connVars

\* except ConnectionError: print, time.sleep(30), and the next pass.
run_server_sleep ==
    /\ pc = "sleep"
    /\ waited' = waited + BACKOFF_SECONDS
    /\ pc' = "register"
    /\ UNCHANGED <<tool, args, self_port, exc, sockFile, response, calls, failures,
                   backlog, accepts, live>>
    /\ UNCHANGED connVars

\* ------------------------------------------------------------------ accept
\* The frontend connects to the listening socket (listen(1)).
client_connects ==
    /\ pc \in {"register", "https", "sleep", "accept", "serving"}
    /\ ~backlog
    /\ backlog' = TRUE
    /\ UNCHANGED <<tool, args, self_port, pc, exc, sockFile, accepts, live>>
    /\ UNCHANGED regVars
    /\ UNCHANGED connVars

\* The states in which the process calls accept.
accept_called_mut(p) == p \in {"accept", "serving"}
accept_called(p) == p = "accept"

\* self.sock.accept() and the call of handle_connection, whose first
\* statement is service = None.
run_server_accept ==
    /\ accept_called(pc)
    /\ backlog
    /\ backlog' = FALSE
    /\ accepts' = accepts + 1
    /\ live' = live + 1
    /\ service' = [id |-> 0, model_name |-> None, entry_point |-> << >>,
                  initialized |-> << >>]
    /\ pc' = "serving"
    /\ UNCHANGED <<tool, args, self_port, exc, sockFile, loads, cmds, sent>>
    /\ UNCHANGED regVars

\* No connection arrives within SOCKET_ACCEPT_TIMEOUT: accept raises
\* socket.timeout.  With DEBUG set no timeout is installed and accept blocks.
run_server_accept_timeout ==
    /\ accept_called(pc)
    /\ ~backlog
    /\ ~DEBUG
    /\ Raise("socket.timeout")
    /\ UNCHANGED <<tool, args, self_port, sockFile, backlog, accepts, live>>
    /\ UNCHANGED regVars
    /\ UNCHANGED connVars

\* ------------------------------------------------------- handler resolution
\* The handler reference of a Load: not given (an empty handler field, which
\* load_model turns into None), or a module with or without an entry name
\* after the colon.
NoHandler == [given |-> FALSE, entry |-> None]
HandlerRefs == {NoHandler, [given |-> TRUE, entry |-> None],
                [given |-> TRUE, entry |-> "fn"]}

\* What the loaded handler module is like: whether it is found at all, its
\* attributes among the names the loader may look up, its eligible classes
\* (list_classes_from_module), and for the single class whether its instance
\* has handle and initialize; whether the initializer raises when called.
AllModules ==
    [found : BOOLEAN, attrs : SUBSET {"handle", "fn"}, classes : 0..2,
     classHandle : BOOLEAN, classInit : BOOLEAN, initRaises : BOOLEAN]

\* One module per behaviour: the facts nothing reads are fixed.
Modules ==
    {m \in AllModules :
        /\ (~m.found => m.attrs = {} /\ m.classes = 0 /\ ~m.initRaises)
        /\ (m.classes # 1 => m.classHandle /\ m.classInit)
        /\ (~m.classHandle => m.classInit)}

\* TsModelLoader._get_function_entry_point: the attribute of that name, and
\* an initializer that calls it with a None payload and the context.
get_function_entry_point_mut(function_name) ==
    [raised |-> None, entry_point |-> <<"function", "handle">>,
     initialize_fn |-> <<"call", "handle">>]
get_function_entry_point(function_name) ==
    [raised |-> None, entry_point |-> <<"function", function_name>>,
     initialize_fn |-> <<"call", function_name>>]

\* TsModelLoader._get_class_entry_point
get_class_entry_point_mut(m) ==
    IF m.classes # 1
    THEN [raised |-> "ValueError: expected only one class"]
    ELSE IF m.classHandle
    THEN [raised |-> "ValueError: expect handle method"]
    ELSE IF ~m.classInit
    THEN [raised |-> "AttributeError: initialize"]
    ELSE [raised |-> None, entry_point |-> <<"class", "handle">>,
          initialize_fn |-> <<"class", "initialize">>]
get_class_entry_point(m) ==
    IF m.classes # 1
    THEN [raised |-> "ValueError: expected only one class"]
    ELSE IF ~m.classHandle
    THEN [raised |-> "ValueError: expect handle method"]
    ELSE IF ~m.classInit
    THEN [raised |-> "AttributeError: initialize"]
    ELSE [raised |-> None, entry_point |-> <<"class", "handle">>,
          initialize_fn |-> <<"class", "initialize">>]

\* The envelope modules of ts.torch_handler.request_envelope that exist, and
\* the envelope names a Load may carry: no envelope field, an empty one, an
\* existing module, a name no module has.
EnvelopeModules == {"json"}
EnvelopeNames == {None, "", "json", "nosuch"}

\* TsModelLoader._load_default_envelope
load_default_envelope(envelope) ==
    IF envelope \in EnvelopeModules
    THEN [raised |-> None, envelope_class |-> envelope]
    ELSE [raised |-> "ImportError: envelope"]

\* "envelope_instance = envelope_class(entry_point);
\*  entry_point = envelope_instance.handle"
envelope_handle_mut(envelope_class, entry_point) == entry_point
envelope_handle(envelope_class, entry_point) ==
    <<"envelope", envelope_class, entry_point>>

\* "initialize_fn(service.context)": the initializer calls made on the context
\* of the Service that load returns.
initialize_calls_mut(initialize_fn) == << >>
initialize_calls(initialize_fn) == <<initialize_fn>>

\* TsModelLoader.load, from the handler reference h, the module m it names
\* and the envelope name (None for no envelope).
TsModelLoader_load_mut(h, m, envelope) ==
    IF ~h.given THEN [raised |-> "KeyError: handler"]
    ELSE IF ~m.found THEN [raised |-> "ImportError"]
    ELSE
      LET env == IF envelope # None THEN load_default_envelope(envelope)
                 ELSE [raised |-> None, envelope_class |-> None]
          ep == IF h.entry # None /\ h.entry \in m.attrs
                THEN get_function_entry_point(h.entry)
                ELSE get_class_entry_point(m)
      IN  IF env.raised # None THEN env
          ELSE IF ep.raised # None THEN ep
          ELSE IF m.initRaises THEN [raised |-> "Exception: initialize"]
          ELSE [raised |-> None,
                entry_point |-> IF env.envelope_class # None
                                THEN envelope_handle(env.envelope_class,
                                                     ep.entry_point)
                                ELSE ep.entry_point,
                initialize_fn |-> ep.initialize_fn,
                initialized |-> initialize_calls(ep.initialize_fn)]
TsModelLoader_load(h, m, envelope) ==
    IF ~h.given THEN [raised |-> "KeyError: handler"]
    ELSE IF ~m.found THEN [raised |-> "ImportError"]
    ELSE
      LET function_name == IF h.entry = None THEN "handle" ELSE h.entry
          env == IF envelope # None THEN load_default_envelope(envelope)
                 ELSE [raised |-> None, envelope_class |-> None]
          ep == IF function_name \in m.attrs
                THEN get_function_entry_point(function_name)
                ELSE get_class_entry_point(m)
      IN  IF env.raised # None THEN env
          ELSE IF ep.raised # None THEN ep
          ELSE IF m.initRaises THEN [raised |-> "Exception: initialize"]
          ELSE [raised |-> None,
                entry_point |-> IF env.envelope_class # None
                                THEN envelope_handle(env.envelope_class,
                                                     ep.entry_point)
                                ELSE ep.entry_point,
                initialize_fn |-> ep.initialize_fn,
                initialized |-> initialize_calls(ep.initialize_fn)]

\* The facts of one Load: the model name of the request, the first failure
\* inside load_model's try block (running out of memory, or a model file that
\* cannot be read, decrypted or unzipped), the handler and its module, and
\* the envelope field.  The Loads of the worker process carry no envelope.
LoadInputs ==
    [modelName : ModelNames, failure : {"MemoryError", "ModelFileError"},
     handler : {NoHandler}, module : {CHOOSE m \in Modules : ~m.found},
     envelope : {None}]
    \cup
    [modelName : ModelNames, failure : {None},
     handler : HandlerRefs, module : Modules, envelope : {None}]

\* handle_connection's service before any Load (None in the code).
NoService == [id |-> 0, model_name |-> None, entry_point |-> << >>,
                  initialized |-> << >>]

load_model_result(name) == <<"loaded model", name>>

\* TorchModelServiceWorker.load_model; sid names the Service it creates.
load_model(ld, sid) ==
    IF ld.failure = "MemoryError"
    THEN [raised |-> None, service |-> NoService,
          result |-> <<"System out of memory">>, code |-> 507]
    ELSE IF ld.failure # None
    THEN [raised |-> ld.failure]
    ELSE LET envelope == IF ld.envelope # None /\ ld.envelope # ""
                         THEN ld.envelope ELSE None
             r == TsModelLoader_load(ld.handler, ld.module, envelope)
         IN
         IF r.raised # None THEN [raised |-> r.raised]
         ELSE [raised |-> None,
               service |-> [id |-> sid, model_name |-> ld.modelName,
                            entry_point |-> r.entry_point,
                            initialized |-> r.initialized],
               result |-> load_model_result(ld.modelName), code |-> 200]

\* --------------------------------------------------------- the command loop
\* Service.predict: the bytes the Service returns for a payload.
Service_predict(svc, payload) == [by |-> svc.id, bytes |-> payload]

\* create_load_model_response: the Load response on the wire.
create_load_model_response(code, result) == [code |-> code, message |-> result]

\* "if code != 200: raise RuntimeError"
load_is_fatal_mut(code) == code # 200 /\ code # 507
load_is_fatal(code) == code # 200

\* An exception raised inside load_model, other than MemoryError, is caught
\* nowhere in handle_connection or run_server.
load_exception_propagates_mut == FALSE
load_exception_propagates == TRUE

\* The Service the loop holds after load_model returned.
service_after_load_mut(old, new) == IF old # NoService THEN old ELSE new
service_after_load(old, new) == new

\* The exception leaves handle_connection and run_server.
Die(e) ==
    /\ Raise(e)
    /\ live' = live - 1

\* The branch of the loop a command tag takes.
command_kind_mut(tag) == IF tag = "I" THEN "predict" ELSE "load"
command_kind(tag) ==
    IF tag = "I" THEN "predict" ELSE IF tag = "L" THEN "load" ELSE "unknown"

\* The command tags a message may carry: I, L, and one that is neither.
Tags == {"I", "L", "X"}

\* service.predict, on the None that handle_connection starts with: there is
\* no such attribute.
predict_raises_mut(svc) == FALSE
predict_raises(svc) == svc = NoService

\* cmd == b"I": resp = service.predict(msg); cl_socket.sendall(resp)
dispatch_predict(tag, payload) ==
    /\ cmds' = Append(cmds, [cmd |-> tag, payload |-> payload])
    /\ UNCHANGED <<service, loads>>
    /\ IF predict_raises(service)
       THEN /\ Die("AttributeError: predict")
            /\ sent' = sent
       ELSE /\ sent' = Append(sent, Service_predict(service, payload))
            /\ UNCHANGED <<pc, exc, live>>

\* cmd == b"L": load_model, the response, and the raise on a code other
\* than 200.
dispatch_load(tag, ld) ==
    LET r == load_model(ld, loads + 1) IN
    /\ loads' = loads + 1
    /\ IF r.raised # None
       THEN /\ cmds' = Append(cmds, [cmd |-> tag, name |-> ld.modelName,
                                     failure |-> ld.failure,
                                     raised |-> TRUE, code |-> 0])
            /\ IF load_exception_propagates
               THEN /\ Die(r.raised)
                    /\ UNCHANGED <<service, sent>>
               ELSE UNCHANGED <<pc, exc, live, service, sent>>
       ELSE /\ cmds' = Append(cmds, [cmd |-> tag, name |-> ld.modelName,
                                     failure |-> ld.failure,
                                     raised |-> FALSE, code |-> r.code])
            /\ service' = service_after_load(service, r.service)
            /\ sent' = Append(sent, create_load_model_response(r.code, r.result))
            /\ IF load_is_fatal(r.code)
               THEN Die("RuntimeError: load")
               ELSE UNCHANGED <<pc, exc, live>>

\* else: raise ValueError("Received unknown command")
dispatch_unknown(tag) ==
    /\ cmds' = Append(cmds, [cmd |-> tag])
    /\ Die("ValueError: unknown command")
    /\ UNCHANGED <<service, loads, sent>>

\* One pass of handle_connection's loop: a message is read and dispatched.
\* retrieve_msg may also fail (the client closed the connection).
handle_connection ==
    /\ pc = "serving"
    /\ Len(cmds) < MaxCmds
    /\ \/ \E tag \in Tags :
            CASE command_kind(tag) = "predict" ->
                    \E payload \in Payloads : dispatch_predict(tag, payload)
              [] command_kind(tag) = "load" ->
                    \E ld \in LoadInputs : dispatch_load(tag, ld)
              [] OTHER -> dispatch_unknown(tag)
       \/ /\ Die("retrieve_msg")
          /\ UNCHANGED connVars
    /\ UNCHANGED <<tool, args, self_port, sockFile, backlog, accepts>>
    /\ UNCHANGED regVars

\* ---------------------------------------------------------------- teardown
\* os.remove(socket_name) in the finally clause: what is at the path after it.
finally_remove_mut(a, file) == file
finally_remove(a, file) ==
    IF a.sock_type = "unix" /\ a.sock_name # None /\ file = "file"
    THEN "absent" ELSE file

\* The main block's except and finally clauses, and sys.exit(1).
main_finally ==
    /\ pc = "dying"
    /\ sockFile' = finally_remove(args, sockFile)
    /\ pc' = "Terminated"
    /\ UNCHANGED <<tool, args, self_port, exc, backlog, accepts, live>>
    /\ UNCHANGED regVars
    /\ UNCHANGED connVars

Next ==
    \/ TorchModelServiceWorker_init
    \/ run_server_bind
    \/ run_server_put_http
    \/ run_server_put_https
    \/ run_server_sleep
    \/ client_connects
    \/ run_server_accept
    \/ run_server_accept_timeout
    \/ handle_connection
    \/ main_finally

Spec == Init /\ [][Next]_vars

\* The steps of the worker process itself (the frontend's connect is not one).
WorkerNext ==
    \/ TorchModelServiceWorker_init
    \/ run_server_bind
    \/ run_server_put_http
    \/ run_server_put_https
    \/ run_server_sleep
    \/ run_server_accept
    \/ run_server_accept_timeout
    \/ handle_connection
    \/ main_finally

\* The process keeps running: a step it can take is taken.
FairSpec == Init /\ [][Next]_vars /\ WF_vars(WorkerNext)

\* ------------------------------------------------- a Load taken on its own
workerVars == <<args, self_port, pc, exc, sockFile, response, calls, failures,
                waited, backlog, accepts, live, service, loads, cmds, sent>>

\* The worker process is not part of the run.
WorkerNotStarted ==
    /\ args = [sock_type |-> None, sock_name |-> None, host |-> None,
               port |-> None, frontend |-> None]
    /\ self_port = None
    /\ pc = "start"
    /\ exc = None
    /\ sockFile = "absent"
    /\ response = None
    /\ calls = << >>
    /\ failures = 0
    /\ waited = 0
    /\ backlog = FALSE
    /\ accepts = 0
    /\ live = 0
    /\ service = NoService
    /\ loads = 0
    /\ cmds = << >>
    /\ sent = << >>

\* The identifiers of the built-in handlers (the keys of model_handlers).
model_handlers ==
    {"base_handler", "text_classifier", "image_classifier", "object_detector",
     "image_segmenter"}

\* A handler string is "[dir/]base[.py][:entry]".  The strings of the model
\* name a user module and a built-in identifier.
HandlerBases == {"mod", "image_classifier"}
HandlerStrings ==
    [given : {TRUE}, dir : BOOLEAN, base : HandlerBases, py : BOOLEAN,
     entry : {None, "fn"}]

\* The string of a handler reference, and the file name "base.py".
handler_string(h) ==
    [dir |-> h.dir, base |-> h.base, py |-> h.py, entry |-> h.entry]
py_file(base) == [dir |-> FALSE, base |-> base, py |-> TRUE, entry |-> None]

\* copy_artifacts, for the handler argument: the files it stages.  A built-in
\* identifier stages nothing; a path without ".py" is cut at the colon and
\* given the suffix; a path with ".py" is copied as it is written, which
\* fails when it carries an entry name.
copy_artifacts_handler(h) ==
    IF ~h.dir /\ ~h.py /\ h.entry = None /\ h.base \in model_handlers
    THEN [raised |-> None, files |-> {}]
    ELSE IF h.py /\ h.entry # None
    THEN [raised |-> "FileNotFoundError", files |-> {}]
    ELSE [raised |-> None, files |-> {py_file(h.base)}]

\* The first steps of TsModelLoader.load: the manifest is read, then the
\* handler module is loaded, from the in-memory artifact set under the key
\* that is the whole handler string, or from the extracted directory by the
\* module name (the string cut at the colon, without ".py" and directories).
\* An ImportError is answered by the same lookup once more.
load_handler(saved_on_disk, manifest, files, h) ==
    IF ~saved_on_disk
    THEN IF ~manifest THEN "KeyError: MAR-INF/MANIFEST.json"
         ELSE IF ~h.given \/ handler_string(h) \notin files
         THEN "KeyError: handler"
         ELSE None
    ELSE IF ~h.given THEN "AttributeError: split"
         ELSE IF py_file(h.base) \notin files THEN "ImportError"
         ELSE None

\* The module files an artifact set of the model may hold.
ModuleFiles == {py_file(b) : b \in HandlerBases}

\* The Loads of this run: where the artifact set is kept, what it holds, the
\* handler string, what the handler module is like once it is loaded, and
\* the envelope field.
LoaderInputs ==
    [saved_on_disk : BOOLEAN, manifest : BOOLEAN, files : SUBSET ModuleFiles,
     modelName : {"m1"}, failure : {None},
     handler : HandlerStrings \cup {NoHandler},
     module : {m \in Modules : m.found}, envelope : EnvelopeNames]

\* TorchModelServiceWorker.load_model on a Load of LoaderInputs.
load_model_from(x) ==
    LET lh == load_handler(x.saved_on_disk, x.manifest, x.files, x.handler) IN
    IF lh # None THEN [raised |-> lh] ELSE load_model(x, 1)

LoaderInit ==
    /\ WorkerNotStarted
    /\ \E x \in LoaderInputs :
          tool = [kind |-> "load", input |-> x, done |-> FALSE,
                  out |-> [raised |-> "pending"]]

TorchModelServiceWorker_load_model ==
    /\ tool.kind = "load"
    /\ ~tool.done
    /\ tool' = [tool EXCEPT !.done = TRUE, !.out = load_model_from(tool.input)]
    /\ UNCHANGED workerVars

LoaderNext == TorchModelServiceWorker_load_model

LoaderSpec == LoaderInit /\ [][LoaderNext]_vars

\* --------------------------------------------- the archive codec on its own
\* padding.PKCS7(128): the block size in bits; AES has the same block.
PKCS7_BLOCK_BITS == 128
BlockBytes == PKCS7_BLOCK_BITS \div 8

Repeat(b, n) == [i \in 1..n |-> b]

\* padder.update(data) + padder.finalize(): n bytes of value n, n in 1..16,
\* up to the next multiple of the block.
pkcs7_pad_mut(data) ==
    LET n == (BlockBytes - (Len(data) % BlockBytes)) % BlockBytes
    IN  data \o Repeat(n, n)
pkcs7_pad(data) ==
    LET n == BlockBytes - (Len(data) % BlockBytes)
    IN  data \o Repeat(n, n)

\* unpadder.update(data) + unpadder.finalize(): the last byte n must be in
\* 1..16 and the last n bytes must all be n.
pkcs7_unpad(data) ==
    IF Len(data) = 0 \/ Len(data) % BlockBytes # 0
    THEN [raised |-> "ValueError: Invalid padding bytes", data |-> << >>]
    ELSE LET n == data[Len(data)] IN
         IF \/ n = 0
            \/ n > BlockBytes
            \/ \E i \in (Len(data) - n + 1)..Len(data) : data[i] # n
         THEN [raised |-> "ValueError: Invalid padding bytes", data |-> << >>]
         ELSE [raised |-> None, data |-> SubSeq(data, 1, Len(data) - n)]

\* The keys: the bytes of the key file.  AES takes keys of 16, 24 or 32 bytes;
\* k stands for the permutation of the blocks that a key of such a length
\* selects.
Keys == [valid : {TRUE}, k : {3, 250}] \cup [valid : {FALSE}, k : {3}]

\* The block of data that holds position i.
BlockOf(data, i) ==
    LET first == ((i - 1) \div BlockBytes) * BlockBytes + 1
    IN  SubSeq(data, first, first + BlockBytes - 1)

\* AES on one block: a permutation of the blocks chosen by the key, and its
\* inverse.  Every byte of the output depends on the key and on a byte of the
\* block at another position.
aes_block_encrypt(key, block) ==
    [i \in 1..BlockBytes |-> (block[BlockBytes + 1 - i] + key.k) % 256]
aes_block_decrypt(key, block) ==
    [i \in 1..BlockBytes |-> (block[BlockBytes + 1 - i] + 256 - key.k) % 256]

\* Cipher(algorithms.AES(key), modes.ECB()).encryptor(): block by block.
aes_ecb_encrypt(key, data) ==
    IF ~key.valid
    THEN [raised |-> "ValueError: Invalid key size", data |-> << >>]
    ELSE IF Len(data) % BlockBytes # 0
    THEN [raised |-> "ValueError: not a multiple of the block length",
          data |-> << >>]
    ELSE [raised |-> None,
          data |-> [i \in 1..Len(data) |->
                      aes_block_encrypt(key, BlockOf(data, i))
                          [((i - 1) % BlockBytes) + 1]]]

\* Cipher(algorithms.AES(key), modes.ECB()).decryptor()
aes_ecb_decrypt(key, data) ==
    IF ~key.valid
    THEN [raised |-> "ValueError: Invalid key size", data |-> << >>]
    ELSE IF Len(data) % BlockBytes # 0
    THEN [raised |-> "ValueError: not a multiple of the block length",
          data |-> << >>]
    ELSE [raised |-> None,
          data |-> [i \in 1..Len(data) |->
                      aes_block_decrypt(key, BlockOf(data, i))
                          [((i - 1) % BlockBytes) + 1]]]

\* archive's "Encrypt MAR" block: the bytes written to the export path.
archive_encrypt(key, plain_text) ==
    aes_ecb_encrypt(key, pkcs7_pad(plain_text))

\* load_model's "if self.model_decryption" block: the bytes of the model.
load_model_decrypt(key, model) ==
    LET d == aes_ecb_decrypt(key, model) IN
    IF d.raised # None THEN d ELSE pkcs7_unpad(d.data)

\* The archive bytes of the runs.
TailBytes == {1, 16, 255}
ArchiveBytes ==
    {Repeat(0, n) \o t :
        n \in 0..MaxFill, t \in UNION {[1..l -> TailBytes] : l \in 0..MaxTail}}

CodecInit ==
    /\ WorkerNotStarted
    /\ \E plain \in ArchiveBytes, key \in Keys :
          tool = [kind |-> "codec", plain |-> plain, key |-> key,
                  stage |-> "built", file |-> << >>, model |-> << >>,
                  raised |-> None]

\* The builder pads and encrypts the archive and writes the model file.
archive_encrypt_step ==
    /\ tool.kind = "codec"
    /\ tool.stage = "built"
    /\ LET c == archive_encrypt(tool.key, tool.plain) IN
       tool' = IF c.raised # None
               THEN [tool EXCEPT !.stage = "failed", !.raised = c.raised]
               ELSE [tool EXCEPT !.stage = "written", !.file = c.data]
    /\ UNCHANGED workerVars

\* The worker reads the model file, decrypts and unpads it.
load_model_decrypt_step ==
    /\ tool.kind = "codec"
    /\ tool.stage = "written"
    /\ LET m == load_model_decrypt(tool.key, tool.file) IN
       tool' = IF m.raised # None
               THEN [tool EXCEPT !.stage = "failed", !.raised = m.raised]
               ELSE [tool EXCEPT !.stage = "read", !.model = m.data]
    /\ UNCHANGED workerVars

CodecNext ==
    \/ archive_encrypt_step
    \/ load_model_decrypt_step

CodecSpec == CodecInit /\ [][CodecNext]_vars

\* ------------------------------------------------ the export path on its own
\* A string is the sequence of its tokens.  No token is the beginning of
\* another, so two strings are equal exactly when their token sequences are.
AlnumTokens == {"a", "b"}
NameTokens == AlnumTokens \cup {"_", ".mar", ".tar.gz"}
Tokens == NameTokens \cup {"/"}

\* archiving_options: the extension of each format tag.
archiving_options_mut ==
    [f \in {"tgz", "no-archive", "default"} |->
        IF f = "tgz" THEN <<".tar.gz">> ELSE <<".mar">>]
archiving_options ==
    [f \in {"tgz", "no-archive", "default"} |->
        IF f = "tgz" THEN <<".tar.gz">>
        ELSE IF f = "no-archive" THEN << >>
        ELSE <<".mar">>]

ArchiveFormats == DOMAIN archiving_options

\* get_archive_export_path: the file name joined to the export directory.
get_archive_export_path(export_file_path, model_name, archive_format) ==
    [dir |-> export_file_path,
     file |-> model_name \o archiving_options[archive_format]]

\* check_model_name_regex_or_exit: ^[A-Za-z0-9][A-Za-z0-9_\-.]*$
check_model_name_regex(model_name) ==
    /\ Len(model_name) > 0
    /\ model_name[1] \in AlnumTokens
    /\ \A i \in DOMAIN model_name : model_name[i] \in NameTokens

\* The model names and the (model name, format) pairs of the runs.
NameStrings == UNION {[1..l -> Tokens] : l \in 0..MaxNameTokens}
ExportPairs == [name : NameStrings, format : ArchiveFormats]

PathInit ==
    /\ WorkerNotStarted
    /\ \E a \in ExportPairs, b \in ExportPairs :
          tool = [kind |-> "path", a |-> a, b |-> b, stage |-> "given",
                  pa |-> [dir |-> "export", file |-> << >>],
                  pb |-> [dir |-> "export", file |-> << >>]]

\* validate_inputs on both model names.
check_model_name_regex_or_exit ==
    /\ tool.kind = "path"
    /\ tool.stage = "given"
    /\ tool' = [tool EXCEPT !.stage =
                  IF /\ check_model_name_regex(tool.a.name)
                     /\ check_model_name_regex(tool.b.name)
                  THEN "valid" ELSE "ModelArchiverError"]
    /\ UNCHANGED workerVars

\* The export paths of both pairs in one export directory.
get_archive_export_path_step ==
    /\ tool.kind = "path"
    /\ tool.stage = "valid"
    /\ tool' = [tool EXCEPT
                  !.stage = "resolved",
                  !.pa = get_archive_export_path("export", tool.a.name,
                                                 tool.a.format),
                  !.pb = get_archive_export_path("export", tool.b.name,
                                                 tool.b.format)]
    /\ UNCHANGED workerVars

PathNext ==
    \/ check_model_name_regex_or_exit
    \/ get_archive_export_path_step

PathSpec == PathInit /\ [][PathNext]_vars

\* -------------------------------------------- the archive builder on its own
\* A name with a single token.
Str(t) == <<t>>

MANIFEST_FILE_NAME == Str("MANIFEST.json")
MAR_INF == Str("MAR-INF")

\* archive_dir's unwanted_dirs, and "directory.startswith('.')".
unwanted_dirs == {Str("__MACOSX"), Str("__pycache__")}
DotTokens == {".mar", ".tar.gz", ".git"}

\* ModelExportUtils.directory_filter
directory_filter_mut(directory) == directory \notin unwanted_dirs
directory_filter(directory) ==
    /\ directory \notin unwanted_dirs
    /\ ~(Len(directory) > 0 /\ directory[1] \in DotTokens)

\* The bytes of a file, and the key they were decrypted with (None: as staged).
Bytes(b) == [bytes |-> b, decrypted_with |-> None]

\* The files the staging directory may hold (copy_artifacts copies files and
\* whole directory trees into it): their directories from the staging root,
\* their name and their bytes.
StagedUniverse ==
    {[dirs |-> << >>, name |-> Str("model.pt"), content |-> Bytes("model")],
     [dirs |-> <<MAR_INF>>, name |-> MANIFEST_FILE_NAME,
      content |-> Bytes("staged manifest")],
     [dirs |-> <<Str("sub")>>, name |-> Str("a.txt"), content |-> Bytes("a")],
     [dirs |-> <<Str("__pycache__")>>, name |-> Str("c.pyc"),
      content |-> Bytes("c")],
     [dirs |-> <<Str("sub"), Str(".git")>>, name |-> Str("cfg"),
      content |-> Bytes("cfg")],
     [dirs |-> <<Str("__MACOSX"), Str("sub")>>, name |-> Str("r"),
      content |-> Bytes("r")],
     [dirs |-> <<Str("encrypted_files")>>, name |-> Str("secret.bin"),
      content |-> Bytes("secret")]}

\* os.walk with the pruning of archive_dir: the files it comes to.
walked(staged) ==
    {f \in staged : \A i \in DOMAIN f.dirs : directory_filter(f.dirs[i])}

\* "if encryption_path in root"
under_encryption_path(f) ==
    Len(f.dirs) > 0 /\ f.dirs[1] = Str("encrypted_files")

\* The arcname prefix of a format: tgz members go under the model name.
arcname_prefix_mut(archive_format, model_name) == <<model_name>>
arcname_prefix(archive_format, model_name) ==
    IF archive_format = "tgz" THEN <<model_name>> ELSE << >>

\* os.path.relpath(file_path, path), after
\* file_path.replace("encrypted_files", "") for a decrypted file.
relpath(f) ==
    IF under_encryption_path(f)
    THEN SelectSeq(f.dirs, LAMBDA d : d # Str("encrypted_files")) \o <<f.name>>
    ELSE f.dirs \o <<f.name>>

\* ModelExportUtils.archive_dir: the members it adds to dst, or the exception.
\* A file under the encryption path needs the decryption key file, and the
\* decrypted buffer can only be written to a zip.
archive_dir(staged, archive_format, model_name, decryption_key) ==
    IF \E f \in walked(staged) :
          under_encryption_path(f) /\ decryption_key = None
    THEN [raised |-> "TypeError: open(None)", members |-> EmptyBag]
    ELSE IF \E f \in walked(staged) :
          under_encryption_path(f) /\ archive_format # "default"
    THEN [raised |-> "TypeError: BytesIO", members |-> EmptyBag]
    ELSE [raised |-> None,
          members |-> SetToBag(
             {[path |-> arcname_prefix(archive_format, model_name) \o relpath(f),
               content |-> IF under_encryption_path(f)
                           THEN [f.content EXCEPT
                                    !.decrypted_with = decryption_key]
                           ELSE f.content] : f \in walked(staged)})]

\* What is at the export path: nothing, a file (an archive: its members, the
\* key it was encrypted with, whether writing it was cut short), or a
\* directory (its files).
Absent == [kind |-> "absent"]
ArchiveFile(members, key, partial) ==
    [kind |-> "file", members |-> members, encrypted_with |-> key,
     partial |-> partial]
Directory(files, partial) ==
    [kind |-> "dir", files |-> files, partial |-> partial]

\* What was at the export path before this build.
OldFiles ==
    {[path |-> <<Str("old.bin")>>, content |-> Bytes("old")],
     [path |-> <<Str("model.pt")>>, content |-> Bytes("old model")]}
Existing ==
    {Absent, ArchiveFile(SetToBag(OldFiles), None, FALSE),
     Directory(OldFiles, FALSE)}

\* shutil.copy into a directory that may hold files: same paths are replaced.
copy_into(files, new) ==
    {o \in files : \A n \in new : n.path # o.path} \cup new

\* ModelExportUtils.archive: the exception it raises (None: it returns), and
\* what is at the export path afterwards.
archive(x, existing) ==
    LET dir == archive_dir(x.staged, x.format, x.model_name, x.decryption_key)
        manifest ==
            [path |-> arcname_prefix(x.format, x.model_name)
                         \o <<MAR_INF, MANIFEST_FILE_NAME>>,
             content |-> x.manifest]
        members == dir.members (+) SetToBag({manifest})
    IN
    IF x.format = "tgz"
    THEN IF x.model_encryption
         THEN [raised |-> "TypeError: tarfile.open(BytesIO)", at |-> existing]
         ELSE IF existing.kind = "dir"
         THEN [raised |-> "IsADirectoryError", at |-> existing]
         ELSE IF dir.raised # None
         THEN [raised |-> dir.raised, at |-> ArchiveFile(EmptyBag, None, TRUE)]
         ELSE [raised |-> None, at |-> ArchiveFile(members, None, FALSE)]
    ELSE IF x.format = "no-archive"
    THEN IF x.model_encryption
         THEN [raised |-> "TypeError: join(BytesIO)", at |-> existing]
         ELSE IF existing.kind = "file"
         THEN [raised |-> "FileExistsError", at |-> existing]
         ELSE LET old == IF existing.kind = "dir" THEN existing.files ELSE {}
              IN  IF dir.raised # None
                  THEN [raised |-> dir.raised, at |-> Directory(old, TRUE)]
                  ELSE [raised |-> None,
                        at |-> Directory(
                                 copy_into(copy_into(old, BagToSet(dir.members)),
                                           {manifest}), FALSE)]
    ELSE IF x.model_encryption
         THEN IF dir.raised # None
              THEN [raised |-> dir.raised, at |-> existing]
              ELSE IF x.encryption_key = None
              THEN [raised |-> None, at |-> existing]
              ELSE IF existing.kind = "dir"
              THEN [raised |-> "IsADirectoryError", at |-> existing]
              ELSE [raised |-> None,
                    at |-> ArchiveFile(members, x.encryption_key, FALSE)]
         ELSE IF existing.kind = "dir"
         THEN [raised |-> "IsADirectoryError", at |-> existing]
         ELSE IF dir.raised # None
         THEN [raised |-> dir.raised, at |-> ArchiveFile(EmptyBag, None, TRUE)]
         ELSE [raised |-> None, at |-> ArchiveFile(members, None, FALSE)]

\* ModelExportUtils.check_mar_already_exists: the error it raises, if any.
check_mar_already_exists(existing, overwrite) ==
    IF existing.kind # "absent" /\ ~overwrite
    THEN "ModelArchiverError: already exists" ELSE None

\* The builds of the runs.
BuildInputs ==
    [model_name : {Str("a")}, format : ArchiveFormats,
     staged : SUBSET StagedUniverse, manifest : {Bytes("manifest")},
     overwrite : BOOLEAN, model_encryption : BOOLEAN,
     encryption_key : {None, "k1"}, decryption_key : {None, "k2"}]

ArchiveInit ==
    /\ WorkerNotStarted
    /\ \E x \in BuildInputs, existing \in Existing :
          tool = [kind |-> "archive", input |-> x, existing |-> existing,
                  export |-> get_archive_export_path("export", x.model_name,
                                                     x.format),
                  stage |-> "staged", at |-> existing, raised |-> None]

check_mar_already_exists_step ==
    /\ tool.kind = "archive"
    /\ tool.stage = "staged"
    /\ LET e == check_mar_already_exists(tool.at, tool.input.overwrite) IN
       tool' = IF e # None
               THEN [tool EXCEPT !.stage = "failed", !.raised = e]
               ELSE [tool EXCEPT !.stage = "checked"]
    /\ UNCHANGED workerVars

archive_step ==
    /\ tool.kind = "archive"
    /\ tool.stage = "checked"
    /\ LET r == archive(tool.input, tool.at) IN
       tool' = [tool EXCEPT
                  !.stage = IF r.raised # None THEN "failed" ELSE "built",
                  !.raised = r.raised,
                  !.at = r.at]
    /\ UNCHANGED workerVars

ArchiveNext ==
    \/ check_mar_already_exists_step
    \/ archive_step

ArchiveSpec == ArchiveInit /\ [][ArchiveNext]_vars

\* ----------------------------------------------- copy_artifacts on its own
\* The paths an artifact argument may name: a file, a directory (with a file
\* and a subdirectory that holds a file), a path that does not exist, and the
\* staging directory itself (model_path).
SourcePaths == {"w.bin", "d", "nope", "staging"}
isfile(p) == p = "w.bin"
isdir(p) == p \in {"d", "staging"}
DirFiles ==
    {[dirs |-> << >>, name |-> Str("x.bin"), content |-> Bytes("x")],
     [dirs |-> <<Str("sub")>>, name |-> Str("y.bin"), content |-> Bytes("y")]}

\* A file copied under the directories dirs of the staging directory.
StagedAt(dirs, f) == [f EXCEPT !.dirs = dirs \o f.dirs]

\* One path of the extra_files list: a file is copied to the staging root, a
\* directory other than the staging directories is merged into it (copytree
\* refuses a subdirectory that is already there).
copy_extra_file(staged, file) ==
    IF isfile(file)
    THEN [raised |-> None,
          staged |-> staged \cup {[dirs |-> << >>, name |-> Str(file),
                                   content |-> Bytes(file)]}]
    ELSE IF isdir(file) /\ file # "staging"
    THEN IF \E s \in staged, f \in DirFiles :
               Len(f.dirs) > 0 /\ Len(s.dirs) > 0 /\ s.dirs[1] = f.dirs[1]
         THEN [raised |-> "FileExistsError", staged |-> staged]
         ELSE [raised |-> None, staged |-> staged \cup DirFiles]
    ELSE [raised |-> "ValueError: Invalid extra file", staged |-> staged]

\* One path of the encrypted_files list: a file is copied to encrypted_path;
\* the test for a directory reads the name encrpyted_path, which is not
\* defined.
copy_encrypted_file(staged, file) ==
    IF isfile(file)
    THEN [raised |-> None,
          staged |-> staged \cup {[dirs |-> <<Str("encrypted_files")>>,
                                   name |-> Str(file),
                                   content |-> Bytes(file)]}]
    ELSE IF isdir(file) /\ file # "staging"
    THEN [raised |-> "NameError: encrpyted_path", staged |-> staged]
    ELSE [raised |-> "ValueError: Invalid extra file", staged |-> staged]

\* shutil.copy(path, model_path), for the other artifact types.
copy_other_file(staged, file) ==
    IF isfile(file)
    THEN [raised |-> None,
          staged |-> staged \cup {[dirs |-> << >>, name |-> Str(file),
                                   content |-> Bytes(file)]}]
    ELSE IF isdir(file)
    THEN [raised |-> "IsADirectoryError", staged |-> staged]
    ELSE [raised |-> "FileNotFoundError", staged |-> staged]

\* The handler argument: the file copy_artifacts_handler names, if any.
copy_handler_file(staged, h) ==
    LET c == copy_artifacts_handler(h) IN
    IF c.raised # None THEN [raised |-> c.raised, staged |-> staged]
    ELSE [raised |-> None,
          staged |-> staged \cup {[dirs |-> << >>, name |-> <<f.base, ".py">>,
                                   content |-> Bytes(f.base)] : f \in c.files}]

\* "for file in path.split(',')": the paths of a list, in order, up to the
\* first that raises.
RECURSIVE copy_listed(_, _, _)
copy_listed(file_type, staged, paths) ==
    IF paths = << >> THEN [raised |-> None, staged |-> staged]
    ELSE LET r == IF file_type = "extra_files"
                  THEN copy_extra_file(staged, Head(paths))
                  ELSE IF file_type = "encrypted_files"
                  THEN copy_encrypted_file(staged, Head(paths))
                  ELSE copy_other_file(staged, Head(paths))
         IN  IF r.raised # None THEN r
             ELSE copy_listed(file_type, r.staged, Tail(paths))

\* "for file_type, path in kwargs.items()": the artifact arguments in the
\* order of the call, up to the first that raises.
RECURSIVE copy_each(_, _)
copy_each(staged, kwargs) ==
    IF kwargs = << >> THEN [raised |-> None, staged |-> staged]
    ELSE LET k == Head(kwargs)
             r == IF k.file_type = "handler"
                  THEN copy_handler_file(staged, k.handler)
                  ELSE copy_listed(k.file_type, staged, k.paths)
         IN  IF r.raised # None THEN r ELSE copy_each(r.staged, Tail(kwargs))

\* ModelExportUtils.copy_artifacts: the staging directory is made anew, with
\* an empty encrypted_files in it, and the artifacts are copied.
copy_artifacts(kwargs) == copy_each({}, kwargs)

\* The artifact arguments of the runs: a handler, the two comma lists, and a
\* model file; each argument at most once.
PathLists == UNION {[1..l -> SourcePaths] : l \in 1..MaxListed}
ArtifactArgs ==
    [file_type : {"handler"},
     handler : {h \in HandlerStrings : ~h.dir},
     paths : {<< >>}]
    \cup
    [file_type : {"extra_files", "encrypted_files"}, handler : {NoHandler},
     paths : PathLists]
    \cup
    [file_type : {"model_file"}, handler : {NoHandler},
     paths : {<<p>> : p \in SourcePaths}]
Kwargs ==
    {k \in UNION {[1..l -> ArtifactArgs] : l \in 0..MaxArtifacts} :
        \A i, j \in DOMAIN k : i # j => k[i].file_type # k[j].file_type}

StageInit ==
    /\ WorkerNotStarted
    /\ \E k \in Kwargs :
          tool = [kind |-> "stage", kwargs |-> k, done |-> FALSE,
                  raised |-> None, staged |-> {}]

copy_artifacts_step ==
    /\ tool.kind = "stage"
    /\ ~tool.done
    /\ LET r == copy_artifacts(tool.kwargs) IN
       tool' = [tool EXCEPT !.done = TRUE, !.raised = r.raised,
                            !.staged = r.staged]
    /\ UNCHANGED workerVars

StageNext == copy_artifacts_step

StageSpec == StageInit /\ [][StageNext]_vars

\* ------------------------------------------------------------------ claims
Last(q) == q[Len(q)]

Down == pc \in {"dying", "Terminated"}

\* The i-th command read was a Load.
IsLoad(i) == cmds[i].cmd = "L"

OomResponse == [code |-> 507, message |-> <<"System out of memory">>]

C2_AcceptOnlyAfter2xx ==
    (pc = "accept")
        => /\ \E k \in DOMAIN calls : is_2xx(calls[k].outcome)
           /\ Len(calls) <= 2
           /\ (Len(calls) = 2 => /\ calls[1].scheme = "http"
                                 /\ ~is_2xx(calls[1].outcome)
                                 /\ calls[2].scheme = "https")

\* accept is entered only from a registration call that returned a response.
C3_AcceptOnlyAfterResponse ==
    [][(pc' = "accept" /\ pc # "accept")
          => /\ calls' # << >>
             /\ Last(calls').outcome \in {"2xx", "non2xx"}
             /\ pc \in {"register", "https"}]_vars

C3_FailureThenSleep ==
    [][(failures' # failures)
          => /\ failures' = failures + 1
             /\ Last(calls').outcome = "ConnectionError"
             /\ pc' = "sleep"]_vars

C3_SleepThenRetry ==
    [][(pc = "sleep" /\ pc' # "sleep")
          => /\ pc' = "register"
             /\ waited' = waited + BACKOFF_SECONDS
             /\ failures' = failures]_vars

C3_OneSleepPerFailure ==
    waited = BACKOFF_SECONDS * (IF pc = "sleep" THEN failures - 1 ELSE failures)

LoadResponseOf(i) ==
    [code |-> cmds[i].code,
     message |-> IF cmds[i].code = 200 THEN <<"loaded model", cmds[i].name>>
                 ELSE <<"System out of memory">>]

SingleClassLoads ==
    [modelName : ModelNames, failure : {None},
     handler : {[given |-> TRUE, entry |-> None]},
     module : [found : {TRUE}, attrs : SUBSET {"fn"}, classes : {1},
               classHandle : {TRUE}, classInit : {TRUE}, initRaises : {FALSE}],
     envelope : {None}]

C4_ReturnedLoadAnswered ==
    /\ Len(sent) <= Len(cmds)
    /\ \A i \in DOMAIN cmds :
        IsLoad(i) =>
            IF cmds[i].raised
            THEN /\ i = Len(cmds)
                 /\ Len(sent) = i - 1
                 /\ Down
            ELSE /\ Len(sent) >= i
                 /\ sent[i] = LoadResponseOf(i)
                 /\ cmds[i].code \in {200, 507}

C4_SingleClassLoads200 ==
    [][(pc = "serving" /\ loads' = loads + 1)
          => \A ld \in SingleClassLoads :
                dispatch_load("L", ld)
                  => /\ sent' = Append(sent, [code |-> 200,
                                     message |-> <<"loaded model", ld.modelName>>])
                     /\ pc' = "serving"]_vars

LoadsUpTo(i) == Cardinality({j \in 1..i : IsLoad(j)})

SomeLoadRaised == \E i \in DOMAIN cmds : IsLoad(i) /\ cmds[i].raised

C5_FailedLoadIsLast ==
    \A i \in DOMAIN cmds :
        IsLoad(i) =>
            /\ (cmds[i].failure = "ModelFileError" => cmds[i].raised)
            /\ cmds[i].raised =>
                  /\ i = Len(cmds)
                  /\ Down
                  /\ live = 0
                  /\ accepts = 1
                  /\ loads = LoadsUpTo(Len(cmds))
                  /\ exc \notin {None, "RuntimeError: load"}

\* C5: a Load that fails with an exception other than running out of memory
\* is the last command read: load_model is not called again for it, no
\* connection is accepted afterwards, and the worker ends in Terminated.
C5_FailedLoadTerminates ==
    /\ []C5_FailedLoadIsLast
    /\ (SomeLoadRaised ~> (pc = "Terminated"))

C5_Witness ==
    /\ pc = "Terminated"
    /\ exc = "ValueError: expected only one class"
    /\ Len(cmds) = 2
    /\ backlog

\* A Load that returned 200.
GoodLoad(j) == IsLoad(j) /\ ~cmds[j].raised /\ cmds[j].code = 200

GoodLoadsBefore(i) == {j \in 1..(i - 1) : GoodLoad(j)}

\* The most recent successful Load before the i-th command.
LastGoodLoad(i) ==
    CHOOSE j \in GoodLoadsBefore(i) : \A k \in GoodLoadsBefore(i) : k <= j

\* C6: each Predict read after a successful Load is answered, at its place in
\* the order of the commands, with what the Service created by the most
\* recent successful Load returns for its payload; the loop holds that
\* Service and no other.
C6_PredictUsesLatestService ==
    /\ \A i \in DOMAIN cmds :
          (cmds[i].cmd = "I" /\ GoodLoadsBefore(i) # {})
              => /\ Len(sent) >= i
                 /\ sent[i] = [by |-> LoadsUpTo(LastGoodLoad(i)),
                               bytes |-> cmds[i].payload]
    /\ (pc = "serving" /\ GoodLoadsBefore(Len(cmds) + 1) # {})
          => /\ service.id = LoadsUpTo(LastGoodLoad(Len(cmds) + 1))
             /\ service.model_name = cmds[LastGoodLoad(Len(cmds) + 1)].name

C6_Witness ==
    /\ Len(cmds) = 3
    /\ GoodLoad(1) /\ cmds[1].name = "m1"
    /\ GoodLoad(2) /\ cmds[2].name = "m2"
    /\ cmds[3].cmd = "I"
    /\ sent[3] = [by |-> 2, bytes |-> "b2"]
    /\ pc = "serving"

\* C7: a message whose tag is neither L nor I is the last one read: load_model
\* is not called for it, nothing is written for it, and the worker goes down
\* with the ValueError.
C7_UnknownCommandIsFatal ==
    \A i \in DOMAIN cmds :
        (cmds[i].cmd \notin {"I", "L"})
            => /\ i = Len(cmds)
               /\ Len(sent) = i - 1
               /\ loads = LoadsUpTo(i)
               /\ Down
               /\ exc = "ValueError: unknown command"
               /\ live = 0

C7_Witness ==
    /\ Len(cmds) = 2
    /\ GoodLoad(1)
    /\ cmds[2].cmd = "X"
    /\ Len(sent) = 1
    /\ pc = "Terminated"

C8_OneLoopAtATime ==
    /\ live \in {0, 1}
    /\ (pc = "accept" => live = 0)
    /\ (pc = "serving" => live = 1)

C8_AcceptOnlyWhenIdle ==
    [][(accepts' # accepts)
          => /\ live = 0
             /\ live' = 1
             /\ pc = "accept"]_vars

\* C8: at most one call of handle_connection is running at any time, and
\* accept is called only when none is.
C8_SingleConnection ==
    /\ []C8_OneLoopAtATime
    /\ C8_AcceptOnlyWhenIdle

C8_Witness ==
    /\ pc = "serving"
    /\ Len(cmds) >= 1
    /\ backlog
    /\ accepts = 1

\* C9: if no client ever connects, a worker waiting in accept leaves it by the
\* accept timeout and reaches Terminated.
C9_AcceptTimesOut ==
    ([](~backlog))
        => [](pc = "accept" => <>(pc = "Terminated" /\ exc = "socket.timeout"))

C9_Witness ==
    /\ pc = "Terminated"
    /\ exc = "socket.timeout"
    /\ accepts = 0
    /\ failures > 0

UnixEndpoint == args.sock_type = "unix" /\ args.sock_name # None

\* C10 as stated: whenever a worker on the unix transport is Terminated, the
\* endpoint file does not exist.
C10_EndpointGone ==
    (pc = "Terminated" /\ UnixEndpoint) => sockFile = "absent"

\* C10 as amended: whenever a worker on the unix transport is Terminated, the
\* endpoint file does not exist, except when construction failed because
\* what is at the endpoint path could not be removed: it is still there.
C10_EndpointGoneUnlessStuck ==
    (pc = "Terminated" /\ UnixEndpoint)
        => IF exc = "RuntimeError: socket already in use"
           THEN sockFile = "stuck"
           ELSE sockFile = "absent"

C10_Witness ==
    /\ pc = "Terminated"
    /\ UnixEndpoint
    /\ exc = "TypeError: url"
    /\ sockFile = "absent"

\* ------------------------------------------------ claims on a Load's handler
\* The run's Load has been carried out / its outcome.
LoadDone == tool.kind = "load" /\ tool.done
LoadIn == tool.input
LoadOut == tool.out
LoadSucceeded ==
    LoadDone /\ LoadOut.raised = None /\ LoadOut.code = 200

\* The handler module was found and loaded, the handler string has no entry
\* name, and the module has no single eligible class.
AmbiguousModuleLoaded ==
    /\ LoadDone
    /\ load_handler(LoadIn.saved_on_disk, LoadIn.manifest, LoadIn.files,
                    LoadIn.handler) = None
    /\ LoadIn.handler.entry = None
    /\ LoadIn.module.classes # 1

\* C11 as stated: a Load without entry name on a module with two or more, or
\* zero, eligible classes fails with the resolution error, whatever else the
\* module defines, and creates no Service.
C11_AmbiguousModuleFails ==
    AmbiguousModuleLoaded =>
        LoadOut.raised = "ValueError: expected only one class"

\* C11, amended: such a Load fails, creating no Service and no 200 result,
\* when the module has no attribute named handle, and the failure is the
\* resolution error unless the envelope of the Load could not be imported
\* first; when the module has an attribute named handle, that attribute is the
\* function entry point, whatever the classes, and the Load can succeed.
C11_AmbiguousModuleFailsWithoutHandle ==
    AmbiguousModuleLoaded =>
        IF "handle" \notin LoadIn.module.attrs
        THEN /\ LoadOut.raised # None
             /\ (LoadIn.envelope \in {None, ""} \cup EnvelopeModules
                    => LoadOut.raised = "ValueError: expected only one class")
        ELSE /\ LoadOut.raised \in {None, "ImportError: envelope",
                                    "Exception: initialize"}
             /\ (LoadOut.raised = None
                    => LoadOut.service.entry_point \in
                         {<<"function", "handle">>,
                          <<"envelope", LoadIn.envelope,
                            <<"function", "handle">>>>})

\* Two classes, no handle attribute, an envelope: the resolution error.
C11_Witness ==
    /\ AmbiguousModuleLoaded
    /\ LoadIn.module.classes = 2
    /\ LoadIn.module.attrs = {"fn"}
    /\ LoadIn.envelope = "json"
    /\ LoadOut.raised = "ValueError: expected only one class"

\* The Load names a built-in handler by its identifier, and its artifact set
\* is a package of the archive builder for that handler: the manifest, and the
\* handler files copy_artifacts stages.
BuiltInLoad ==
    /\ LoadDone
    /\ LoadIn.handler.given
    /\ handler_string(LoadIn.handler) \in
          {[dir |-> FALSE, base |-> b, py |-> FALSE, entry |-> None] :
             b \in model_handlers}
    /\ LoadIn.manifest
    /\ copy_artifacts_handler(LoadIn.handler).raised = None
    /\ LoadIn.files = copy_artifacts_handler(LoadIn.handler).files

\* C12: a Load of a built-in handler identifier, on a package the archive
\* builder made for it, does not fail on looking up a handler file in the
\* artifact set.
C12_BuiltInNeedsNoHandlerFile ==
    BuiltInLoad => LoadOut.raised \notin {"KeyError: handler", "ImportError"}

\* The handler's own entry point of a Service: what its envelope wraps, or
\* its entry point when there is no envelope.
HandlerEntryPoint(svc) ==
    IF svc.entry_point[1] = "envelope" THEN svc.entry_point[3]
    ELSE svc.entry_point

\* The Load succeeded on a handler string that carries an entry name.
NamedEntryLoaded == LoadSucceeded /\ LoadIn.handler.entry # None

\* C13 as stated: with an entry name, the entry point is the module attribute
\* of that name as a function entry point, and the class scan is never taken.
C13_NamedEntryIsFunction ==
    NamedEntryLoaded =>
        HandlerEntryPoint(LoadOut.service) = <<"function", LoadIn.handler.entry>>

\* C13, amended: with an entry name that is an attribute of the module, the
\* entry point is that attribute as a function entry point, the initializer
\* calls it once with a None payload and the context, and no failure of the
\* class scan can end the Load; with an entry name the module has no
\* attribute for, the class scan is taken, and a Load that succeeds has the
\* single class's handle and initialize.
C13_NamedEntryIsFunctionIfPresent ==
    /\ NamedEntryLoaded =>
          IF LoadIn.handler.entry \in LoadIn.module.attrs
          THEN /\ HandlerEntryPoint(LoadOut.service)
                     = <<"function", LoadIn.handler.entry>>
               /\ LoadOut.service.initialized
                     = << <<"call", LoadIn.handler.entry>> >>
          ELSE /\ LoadIn.module.classes = 1
               /\ HandlerEntryPoint(LoadOut.service) = <<"class", "handle">>
               /\ LoadOut.service.initialized = << <<"class", "initialize">> >>
    /\ (/\ LoadDone
        /\ LoadIn.handler.entry # None
        /\ LoadIn.handler.entry \in LoadIn.module.attrs)
          => LoadOut.raised \notin {"ValueError: expected only one class",
                                    "ValueError: expect handle method",
                                    "AttributeError: initialize"}

\* A Load with entry name fn on a module that has fn and two classes.
C13_Witness ==
    /\ NamedEntryLoaded
    /\ LoadIn.handler.entry = "fn"
    /\ LoadIn.module.attrs = {"fn"}
    /\ LoadIn.module.classes = 2
    /\ LoadOut.service.entry_point = <<"function", "fn">>

\* C14: a Load that is answered with 200 has made exactly one initializer
\* call, the one of the Service's handler, by the time the response is
\* written, and every Service the loop holds for a Predict has had exactly
\* that one call.
C14_InitializedOnceBeforeUse ==
    /\ [](service # NoService =>
            /\ Len(service.initialized) = 1
            /\ service.initialized[1] \in
                 {<<"class", "initialize">>,
                  <<"call", HandlerEntryPoint(service)[2]>>})
    /\ [][(/\ pc = "serving"
           /\ loads' = loads + 1
           /\ Len(sent') = Len(sent) + 1
           /\ Last(sent').code = 200)
          => /\ service'.id = loads'
             /\ Len(service'.initialized) = 1]_vars

\* A Load answered with 200, then a Predict answered by its Service.
C14_Witness ==
    /\ Len(cmds) = 2
    /\ IsLoad(1)
    /\ cmds[2].cmd = "I"
    /\ Len(sent) = 2
    /\ sent[1].code = 200
    /\ sent[2].by = service.id
    /\ service.initialized = << <<"class", "initialize">> >>

\* What the loader resolves for the Load's handler when no envelope is asked.
OwnResolution == TsModelLoader_load(LoadIn.handler, LoadIn.module, None)

\* C15: a Load with a non-empty envelope name gives the Service the handle of
\* an envelope instance built around the handler's resolved entry point, and
\* the initializer called is the handler's; with no envelope field, or an
\* empty one, the Service's entry point is the handler's own.
C15_EnvelopeWrapsEntryPoint ==
    LoadSucceeded =>
        /\ OwnResolution.raised = None
        /\ LoadOut.service.initialized = <<OwnResolution.initialize_fn>>
        /\ IF LoadIn.envelope \in {None, ""}
           THEN LoadOut.service.entry_point = OwnResolution.entry_point
           ELSE /\ LoadOut.service.entry_point =
                     <<"envelope", LoadIn.envelope, OwnResolution.entry_point>>
                /\ OwnResolution.entry_point \in
                     {<<"class", "handle">>, <<"function", "handle">>,
                      <<"function", "fn">>}

\* A Load with the envelope json on a module with one class.
C15_Witness ==
    /\ LoadSucceeded
    /\ LoadIn.envelope = "json"
    /\ LoadOut.service.entry_point = <<"envelope", "json", <<"class", "handle">>>>
    /\ LoadOut.service.initialized = << <<"class", "initialize">> >>

\* ------------------------------------------------- claims on the archive codec
\* C16: for archive bytes of any length, multiples of the block included, and
\* any key, what the worker gets by decrypting and unpadding the model file is
\* the archive bytes the builder padded and encrypted with the same key; with
\* a key AES accepts neither side fails.
C16_DecryptInvertsEncrypt ==
    tool.kind = "codec" =>
        /\ (tool.stage = "read" => tool.model = tool.plain)
        /\ (tool.stage = "written" =>
                /\ Len(tool.file) % BlockBytes = 0
                /\ Len(tool.file) > Len(tool.plain))
        /\ (tool.stage = "failed" =>
                ~tool.key.valid /\ tool.file = << >>)

\* Two whole blocks that end in a byte that looks like padding.
C16_Witness ==
    /\ tool.kind = "codec"
    /\ tool.stage = "read"
    /\ Len(tool.plain) = 2 * BlockBytes
    /\ tool.plain[Len(tool.plain)] = 1
    /\ Len(tool.file) = 3 * BlockBytes
    /\ tool.model = tool.plain

\* ------------------------------------------------- claims on the export path
PathsResolved == tool.kind = "path" /\ tool.stage = "resolved"

\* C19 as stated: in one export directory, distinct (model name, format)
\* pairs of valid model names get distinct export paths.
C19_DistinctPairsDistinctPaths ==
    (PathsResolved /\ tool.a # tool.b) => tool.pa # tool.pb

\* C19, amended: pairs with the same format and distinct names, and pairs with
\* the same name and distinct formats, get distinct paths; two pairs that
\* differ in both get the same path exactly when name and extension
\* concatenate to the same string, and one of the two is then no-archive.
C19_DistinctInOneComponent ==
    PathsResolved =>
        /\ (tool.a.format = tool.b.format /\ tool.a.name # tool.b.name)
              => tool.pa # tool.pb
        /\ (tool.a.name = tool.b.name /\ tool.a.format # tool.b.format)
              => tool.pa # tool.pb
        /\ (tool.a # tool.b /\ tool.pa = tool.pb)
              => /\ "no-archive" \in {tool.a.format, tool.b.format}
                 /\ tool.a.format # tool.b.format
                 /\ tool.a.name # tool.b.name

\* The names a.mar with no-archive and a with default share a path.
C19_Witness ==
    /\ PathsResolved
    /\ tool.a = [name |-> <<"a", ".mar">>, format |-> "no-archive"]
    /\ tool.b = [name |-> <<"a">>, format |-> "default"]
    /\ tool.pa = tool.pb

\* --------------------------------------------- claims on the archive builder
\* The build returned and left an archive of its own at the export path.
Produced ==
    /\ tool.kind = "archive"
    /\ tool.stage = "built"
    /\ tool.at # tool.existing

\* The entries of what is at the export path, with their multiplicity.
Entries(at) ==
    IF at.kind = "file" THEN at.members
    ELSE IF at.kind = "dir" THEN SetToBag(at.files)
    ELSE EmptyBag

\* The entries at the manifest's place, under the model name or at the root.
ManifestEntries(at) ==
    LET B == Entries(at)
        S == {e \in BagToSet(B) :
                e.path \in {<<MAR_INF, MANIFEST_FILE_NAME>>,
                            <<tool.input.model_name, MAR_INF,
                              MANIFEST_FILE_NAME>>}}
    IN  [e \in S |-> B[e]]

\* C17: every archive that build produces, in each format and for any staged
\* artifact set, has exactly one manifest entry, and its content is the
\* manifest passed to build.
C17_ExactlyOneManifest ==
    Produced =>
        /\ BagCardinality(ManifestEntries(tool.at)) = 1
        /\ \A e \in BagToSet(ManifestEntries(tool.at)) :
              e.content = tool.input.manifest

\* C18 as stated: in every archive, of any format, every member path, the
\* manifest's included, begins with the model name (for the no-archive format
\* the members are the files below the export directory).
MemberPaths ==
    IF tool.at.kind = "dir"
    THEN {<<tool.export.file>> \o e.path : e \in tool.at.files}
    ELSE {e.path : e \in BagToSet(tool.at.members)}

OnlyNewContent ==
    /\ tool.at # tool.existing
    /\ \A e \in BagToSet(Entries(tool.at)) :
          e.content.bytes \notin {"old", "old model"}

C20_OverwriteReplaces ==
    (tool.kind = "archive" /\ tool.existing.kind # "absent"
        /\ tool.stage # "staged")
    => IF ~tool.input.overwrite
       THEN /\ tool.stage = "failed"
            /\ tool.raised = "ModelArchiverError: already exists"
            /\ tool.at = tool.existing
       ELSE /\ tool.raised # "ModelArchiverError: already exists"
            /\ (tool.stage = "built" => OnlyNewContent)

\* A staged file is below a directory named __pycache__ or __MACOSX, or below
\* one whose name starts with a dot, at some depth.
BelowUnwanted(f) ==
    \E i \in DOMAIN f.dirs :
        \/ f.dirs[i] \in {Str("__pycache__"), Str("__MACOSX")}
        \/ f.dirs[i][1] \in {".git"}

\* C21: in an archive that build produces, no staged file below such a
\* directory appears, and every other staged file has an entry at its path
\* relative to the staging root (for a tgz under the model name; for a file
\* below the encryption path without that directory), with the file's bytes
\* unless the entry is at the manifest's place.
C21_UnwantedPrunedOthersKept ==
    Produced =>
        \A f \in tool.input.staged :
            IF BelowUnwanted(f)
            THEN \A e \in BagToSet(Entries(tool.at)) :
                    e.content.bytes # f.content.bytes
            ELSE \E e \in BagToSet(Entries(tool.at)) :
                    /\ e.path \in {relpath(f),
                                   <<tool.input.model_name>> \o relpath(f)}
                    /\ \/ e.content.bytes = f.content.bytes
                       \/ e \in DOMAIN ManifestEntries(tool.at)

\* A zip of the whole staged universe, the decryption key given.
C21_Witness ==
    /\ Produced
    /\ tool.input.staged = StagedUniverse
    /\ tool.input.format = "default"
    /\ BagCardinality(Entries(tool.at)) = 5

\* C22: a build with whole-archive encryption requested, in the tgz or the
\* zip format, that returns without error has written a file at the export
\* path, the archive encrypted with the encryption key; it never returns
\* without having written it, also when no key was supplied.
C22_EncryptedBuildWrites ==
    (/\ tool.kind = "archive"
     /\ tool.input.model_encryption
     /\ tool.input.format \in {"tgz", "default"}
     /\ tool.stage = "built")
    => /\ tool.at.kind = "file"
       /\ tool.at.encrypted_with # None
       /\ tool.at.encrypted_with = tool.input.encryption_key
       /\ \E e \in BagToSet(tool.at.members) :
             e.content = tool.input.manifest

\* ------------------------------------ claims on a Load's handler, in memory
\* C23: with the artifact set in memory, a Load whose handler string is
\* <module>:<entryName> finds the handler's buffer by the module part and
\* resolves the entry name as the filesystem case does: when the same Load
\* on the same artifact set extracted to disk succeeds, the Load in memory
\* gives the same Service.
OnDiskOutcome == load_model_from([LoadIn EXCEPT !.saved_on_disk = TRUE])

C23_InMemoryLikeOnDisk ==
    (/\ LoadDone
     /\ ~LoadIn.saved_on_disk
     /\ LoadIn.manifest
     /\ LoadIn.handler.given
     /\ LoadIn.handler.entry # None
     /\ OnDiskOutcome.raised = None)
    => LoadOut = OnDiskOutcome

\* ------------------------------------------------ claims on the worker, again
\* C24: on both transports a bound worker with a frontend address and a host
\* completes the registration call, so that a 2xx answer takes it to accept;
\* the call of a worker on the unix transport, whose port is -1, does not
\* fail either.
C24_RegistrationCallCompletes ==
    (/\ args.frontend = "str"
     /\ args.host = "str"
     /\ \/ UnixEndpoint
        \/ args.sock_type = "tcp" /\ args.port = "str")
    => /\ exc # "TypeError: url"
       /\ (pc = "register" =>
             ENABLED (run_server_put_http /\ pc' = "accept"))

\* ------------------------------------- claims on the archive builder, again
\* The walk of the build comes to a file below the encryption path.
WalksEncrypted ==
    \E f \in walked(tool.input.staged) : under_encryption_path(f)

\* C25: a build with no decryption key packages the files below the
\* encryption path as they are, without decrypting them, and succeeds; the
\* files are decrypted only when a decryption key was supplied.
C25_NoKeyNoDecrypt ==
    (/\ tool.kind = "archive"
     /\ tool.stage \in {"built", "failed"}
     /\ tool.raised # "ModelArchiverError: already exists"
     /\ WalksEncrypted
     /\ tool.input.decryption_key = None
     /\ ~tool.input.model_encryption
     /\ ~(tool.input.format = "no-archive" /\ tool.existing.kind = "file")
     /\ ~(tool.input.format # "no-archive" /\ tool.existing.kind = "dir"))
    => /\ tool.stage = "built"
       /\ \A f \in walked(tool.input.staged) :
             under_encryption_path(f) =>
                \E e \in BagToSet(Entries(tool.at)) : e.content = f.content

\* ------------------------------------------------- claims on copy_artifacts
\* copy_artifacts was given the encrypted_files argument alone, and no path
\* of its list is the staging directory.
OnlyEncryptedFiles ==
    /\ tool.kind = "stage"
    /\ tool.done
    /\ Len(tool.kwargs) = 1
    /\ tool.kwargs[1].file_type = "encrypted_files"
    /\ \A i \in DOMAIN tool.kwargs[1].paths : tool.kwargs[1].paths[i] # "staging"

\* C26: given files or directories to be encrypted, copy_artifacts puts their
\* content under encrypted_files and not in the staging root, a directory's
\* content merged; it fails only when a path is neither a file nor a
\* directory, and then with the invalid-artifact error.
C26_EncryptedArtifactsStaged ==
    OnlyEncryptedFiles =>
        LET paths == {tool.kwargs[1].paths[i] : i \in DOMAIN tool.kwargs[1].paths}
        IN  IF \E p \in paths : ~isfile(p) /\ ~isdir(p)
            THEN tool.raised = "ValueError: Invalid extra file"
            ELSE /\ tool.raised = None
                 /\ \A f \in tool.staged : f.dirs[1] = Str("encrypted_files")
                 /\ ("w.bin" \in paths =>
                       \E f \in tool.staged : f.name = Str("w.bin"))
                 /\ ("d" \in paths =>
                       \A g \in DirFiles :
                          StagedAt(<<Str("encrypted_files")>>, g) \in tool.staged)

\* --------------------------------------------- claims on the loop, again
\* C27: a Predict read before any successful Load is not answered: no
\* Service's predict runs for it, nothing is written for it, the worker goes
\* down with the AttributeError, and it is the last command read.
C27_PredictBeforeLoadIsFatal ==
    \A i \in DOMAIN cmds :
        (cmds[i].cmd = "I" /\ GoodLoadsBefore(i) = {})
            => /\ i = Len(cmds)
               /\ Len(sent) = i - 1
               /\ \A k \in DOMAIN sent : sent[k] # Service_predict(service, cmds[i].payload)
               /\ service = NoService
               /\ Down
               /\ exc = "AttributeError: predict"
               /\ live = 0

C27_Witness ==
    /\ Len(cmds) = 1
    /\ cmds[1].cmd = "I"
    /\ sent = << >>
    /\ exc = "AttributeError: predict"
    /\ pc = "Terminated"

C28_AtMostOneAccept ==
    /\ accepts <= 1
    /\ (accepts = 1 => pc \in {"serving", "dying", "Terminated"})
    /\ (accepts = 1 /\ live = 0 => Down /\ exc # None)

C28_LoopLeftByException ==
    [][(live' < live) => (pc = "serving" /\ pc' = "dying" /\ exc' # None)]_vars

C28_NoRegistrationAfterAccept ==
    [][(accepts >= 1)
          => /\ accepts' = accepts
             /\ calls' = calls
             /\ pc' \notin {"register", "https", "sleep", "accept"}]_vars

\* C28: the command loop is left only by an exception, which takes the worker
\* down; so a worker accepts at most one connection in its life, and after
\* that accept neither registers again nor accepts again.
C28_OneConnectionPerWorker ==
    /\ []C28_AtMostOneAccept
    /\ C28_LoopLeftByException
    /\ C28_NoRegistrationAfterAccept

C28_Witness ==
    /\ accepts = 1
    /\ Len(cmds) >= 1
    /\ backlog
    /\ live = 0
    /\ Len(calls) >= 1
    /\ pc = "Terminated"

====
